---- MODULE Spec2Model ----
(***************************************************************************)
(* A model of verl/utils/dataset.py: the two dataset classes RLHFDataset   *)
(* and RLHFSelfDataset (their construction and the step-by-step            *)
(* __getitem__ transformation of one record into a training example), the  *)
(* message builder _build_messages and the image normaliser process_image. *)
(*                                                                         *)
(* Conventions.  A Python dict is a function whose DOMAIN is its key set.  *)
(* A string is a sequence of symbols: a word ("a", "b"), the prompt's      *)
(* image marker "<image>", or a special token of the chat template.  An    *)
(* image reference or decoded image is the pair <<width, height>>.         *)
(* Sequences are 1-based, so index i here is index i-1 of the code.        *)
(* position_ids is a sequence of rows: one row for the shape (seq,), three *)
(* rows for the shape (3, seq).                                            *)
(***************************************************************************)
EXTENDS Integers, Sequences, FiniteSets, TLC

\* ------------------------------------------------------------------ bounds

\* Records in a dataset, __getitem__ calls made on one dataset object.
MaxRecords == 2
MaxCalls == 2
\* The configured max_prompt_length, min_pixels and max_pixels.
MaxPromptLength == 5
\* A second max_prompt_length, long enough for the rendered prompt of a
\* record with images.
LongPromptLength == MaxPromptLength + 3
MinPixels == 1
MaxPixels == 4
\* process_image alone: image sides and pixel bounds up to these.
MaxDim == 5
MaxBudget == 6
\* _build_messages alone: prompts of up to this many symbols.
MaxPromptSyms == 4

\* ------------------------------------------------------------ Python dicts

EmptyDict == [k \in {} |-> 0]

Has(d, k) == k \in DOMAIN d

Put(d, k, v) == [x \in (DOMAIN d) \cup {k} |-> IF x = k THEN v ELSE d[x]]

Pop(d, k) == [x \in (DOMAIN d) \ {k} |-> d[x]]

\* ----------------------------------------------------------- small helpers

Min2(a, b) == IF a < b THEN a ELSE b

RECURSIVE Repeat(_, _)
Repeat(v, n) == IF n <= 0 THEN << >> ELSE <<v>> \o Repeat(v, n - 1)

\* s[-n:] and s[:n] of Python, for 0 < n <= Len(s)
LastN(s, n) == SubSeq(s, Len(s) - n + 1, Len(s))
FirstN(s, n) == SubSeq(s, 1, n)

\* --------------------------------------------------------- process_image

\* int(d * math.sqrt(bound / (d * other))): the largest k with
\* k*k*other <= d*bound.
ScaledSide(d, other, bound) ==
    CHOOSE k \in 0..(d * bound) :
        /\ k * k * other <= d * bound
        /\ (k + 1) * (k + 1) * other > d * bound

\* Image.resize((width, height)): PIL refuses a side below 1 (ValueError).
Resize(width, height) ==
    IF width < 1 \/ height < 1
    THEN [ok |-> FALSE, width |-> width, height |-> height]
    ELSE [ok |-> TRUE, width |-> width, height |-> height]

\* lines 64-67: the downscale check
Downscale(image, max_pixels) ==
    IF image[1] * image[2] > max_pixels
    THEN Resize(ScaledSide(image[1], image[2], max_pixels),
                ScaledSide(image[2], image[1], max_pixels))
    ELSE [ok |-> TRUE, width |-> image[1], height |-> image[2]]

\* lines 69-72: the upscale check, on the image the downscale left
Upscale(im, min_pixels) ==
    IF ~im.ok THEN im
    ELSE IF im.width * im.height < min_pixels
    THEN Resize(ScaledSide(im.width, im.height, min_pixels),
                ScaledSide(im.height, im.width, min_pixels))
    ELSE im

\* process_image: [ok, width, height]; ok = FALSE when it raises.  The
\* decoding of the reference and the conversion to RGB leave the size as
\* it is and are not part of the result here.
process_image(image, min_pixels, max_pixels) ==
    Upscale(Downscale(image, max_pixels), min_pixels)

\* -------------------------------------------------------- _build_messages

Marker == "<image>"

\* A format_prompt template "pre {{ content }} suf", already stripped.
NoTemplate == [set |-> FALSE, pre |-> << >>, suf |-> << >>]

\* Template(...).render(content=prompt_str)
Render(template, prompt_str) ==
    IF template.set THEN template.pre \o prompt_str \o template.suf
    ELSE prompt_str

\* prompt_str.split("<image>"): the segments between markers, empty ones
\* included; k markers give k+1 segments.
RECURSIVE Split(_)
Split(s) ==
    IF \A i \in 1..Len(s) : s[i] # Marker THEN <<s>>
    ELSE LET p == CHOOSE i \in 1..Len(s) :
                      /\ s[i] = Marker
                      /\ \A j \in 1..(i - 1) : s[j] # Marker
         IN <<SubSeq(s, 1, p - 1)>> \o Split(SubSeq(s, p + 1, Len(s)))

ImagePart == [type |-> "image"]
TextPart(content) == [type |-> "text", text |-> content]

\* The image part appended after the segment's text instead of before it.
RECURSIVE ContentListImageAfterText(_, _)
ContentListImageAfterText(segments, i) ==
    IF i > Len(segments) THEN << >>
    ELSE (IF segments[i] # << >> THEN <<TextPart(segments[i])>> ELSE << >>)
         \o (IF i # 1 THEN <<ImagePart>> ELSE << >>)
         \o ContentListImageAfterText(segments, i + 1)

\* lines 141-147: the loop over the segments
RECURSIVE ContentList(_, _)
ContentList(segments, i) ==
    IF i > Len(segments) THEN << >>
    ELSE (IF i # 1 THEN <<ImagePart>> ELSE << >>)
         \o (IF segments[i] # << >> THEN <<TextPart(segments[i])>> ELSE << >>)
         \o ContentList(segments, i + 1)

\* _build_messages(example): the single user message.
build_messages(example, prompt_key, image_key, template) ==
    LET prompt_str == Render(template, example[prompt_key])
    IN IF Has(example, image_key)
       THEN [role |-> "user", is_str |-> FALSE,
             content |-> ContentList(Split(prompt_str), 1)]
       ELSE [role |-> "user", is_str |-> TRUE, content |-> prompt_str]

\* ------------------------------------------- chat template and tokenizer

\* The chat template both backends share, with add_generation_prompt=True
\* and tokenize=False: a user header, the content (a string verbatim, or
\* the parts in order with one image placeholder per image part), and the
\* generation prompt.
RECURSIVE RenderParts(_)
RenderParts(parts) ==
    IF parts = << >> THEN << >>
    ELSE (IF Head(parts).type = "image" THEN <<"<|image_pad|>">>
          ELSE Head(parts).text)
         \o RenderParts(Tail(parts))

apply_chat_template(message) ==
    <<"<|user|>">>
    \o (IF message.is_str THEN message.content ELSE RenderParts(message.content))
    \o <<"<|assistant|>">>

\* Characters of a symbol: a word is one character here, the marker and
\* the special tokens are longer than one character.
CharLen(sym) == IF sym \in {"a", "b"} THEN 1 ELSE 2

RECURSIVE StrLen(_)
StrLen(s) == IF s = << >> THEN 0 ELSE CharLen(Head(s)) + StrLen(Tail(s))

pad_token_id == 0

\* The tokenizer's vocabulary: one id per symbol; the marker "<image>" in
\* plain text is ordinary text.
TokenId(sym) ==
    CASE sym = "a" -> 1
      [] sym = "b" -> 2
      [] sym = Marker -> 3
      [] sym = "<|image_pad|>" -> 4
      [] sym = "<|user|>" -> 5
      [] sym = "<|assistant|>" -> 6

\* tokenizer.encode(prompt, add_special_tokens=False)
encode(prompt) == [i \in 1..Len(prompt) |-> TokenId(prompt[i])]

\* image_grid_thw of a normalised image: one patch per pixel.
Grid(im) == <<1, im.height, im.width>>

\* processor(images, [prompt]): input_ids, with the i-th image placeholder
\* expanded to one token per patch of the i-th image.
RECURSIVE ExpandPads(_, _, _)
ExpandPads(prompt, grids, i) ==
    IF prompt = << >> THEN << >>
    ELSE IF Head(prompt) = "<|image_pad|>" /\ i <= Len(grids)
    THEN Repeat(TokenId("<|image_pad|>"), grids[i][2] * grids[i][3])
         \o ExpandPads(Tail(prompt), grids, i + 1)
    ELSE <<TokenId(Head(prompt))>> \o ExpandPads(Tail(prompt), grids, i)

\* ------------------------------------------------------------ position ids

RECURSIVE CumSum(_)
CumSum(s) ==
    IF s = << >> THEN << >>
    ELSE LET front == CumSum(FirstN(s, Len(s) - 1))
         IN front \o <<(IF front = << >> THEN 0 ELSE front[Len(front)]) + s[Len(s)]>>

\* The cumulative sum without the "- 1".
ClipCumsumOffByOne(attention_mask) == CumSum(attention_mask)

\* line 204: torch.clip(attention_mask.cumsum(dim=0) - 1, min=0)
ClipCumsum(attention_mask) ==
    LET cs == CumSum(attention_mask)
    IN [i \in 1..Len(cs) |-> IF cs[i] - 1 < 0 THEN 0 ELSE cs[i] - 1]

\* get_rope_index: a (3, seq_length) index array; its entries are the
\* text positions on each of the three axes.
get_rope_index(input_ids, image_grid_thw, attention_mask) ==
    LET row == ClipCumsum(attention_mask)
    IN <<row, row, row>>

\* ---------------------------------------------------------- postprocess_data

\* pad_sequence_to_length(..., left_pad=True) along the last axis
LeftPad(s, max_length, pad) == Repeat(pad, max_length - Len(s)) \o s

postprocess_data(input_ids, attention_mask, position_ids, max_length, pad_id, truncation) ==
    IF Len(input_ids) < max_length
    THEN [ok |-> TRUE,
          input_ids |-> LeftPad(input_ids, max_length, pad_id),
          attention_mask |-> LeftPad(attention_mask, max_length, 0),
          position_ids |-> [r \in 1..Len(position_ids) |->
                               LeftPad(position_ids[r], max_length, 0)]]
    ELSE IF Len(input_ids) > max_length /\ truncation = "left"
    THEN [ok |-> TRUE,
          input_ids |-> LastN(input_ids, max_length),
          attention_mask |-> LastN(attention_mask, max_length),
          position_ids |-> [r \in 1..Len(position_ids) |->
                               LastN(position_ids[r], max_length)]]
    ELSE IF Len(input_ids) > max_length /\ truncation = "right"
    THEN [ok |-> TRUE,
          input_ids |-> FirstN(input_ids, max_length),
          attention_mask |-> FirstN(attention_mask, max_length),
          position_ids |-> [r \in 1..Len(position_ids) |->
                               FirstN(position_ids[r], max_length)]]
    ELSE [ok |-> Len(input_ids) <= max_length,
          input_ids |-> input_ids,
          attention_mask |-> attention_mask,
          position_ids |-> position_ids]

\* The two slices exchanged.
TruncateRawSwapped(raw_prompt_ids, max_length, truncation) ==
    IF Len(raw_prompt_ids) > max_length
    THEN IF truncation = "left"
         THEN [ok |-> TRUE, ids |-> FirstN(raw_prompt_ids, max_length)]
         ELSE IF truncation = "right"
         THEN [ok |-> TRUE, ids |-> LastN(raw_prompt_ids, max_length)]
         ELSE [ok |-> truncation # "error", ids |-> raw_prompt_ids]
    ELSE [ok |-> TRUE, ids |-> raw_prompt_ids]

\* lines 216-222: the truncation of raw_prompt_ids; ok = FALSE when it raises
TruncateRaw(raw_prompt_ids, max_length, truncation) ==
    IF Len(raw_prompt_ids) > max_length
    THEN IF truncation = "left"
         THEN [ok |-> TRUE, ids |-> LastN(raw_prompt_ids, max_length)]
         ELSE IF truncation = "right"
         THEN [ok |-> TRUE, ids |-> FirstN(raw_prompt_ids, max_length)]
         ELSE [ok |-> truncation # "error", ids |-> raw_prompt_ids]
    ELSE [ok |-> TRUE, ids |-> raw_prompt_ids]

\* ------------------------------------------------------------------ state

VARIABLES
    variant,    \* the class of the dataset object
    config,     \* the attributes __init__ sets from its arguments
    dataset,    \* self.dataset: the stored record sequence
    dataset0,   \* history: self.dataset as __init__ left it
    calls,      \* the __getitem__ calls: position, index and locals of each
    bm,         \* _build_messages on its own: argument and result
    pi,         \* process_image on its own: arguments and result
    cf          \* collate_fn on its own: argument and result

vars == <<variant, config, dataset, dataset0, calls, bm, pi, cf>>

prompt_key == "problem"
answer_key == "answer"
image_key == "images"

Truncations == {"left", "right", "error"}

\* processor.image_processor's class name, or None for no processor
Processors == {"None", "Qwen2VLImageProcessor", "Qwen2VLImageProcessorFast"}

Templates == {NoTemplate, [set |-> TRUE, pre |-> << >>, suf |-> <<"b">>]}

Configs ==
    [processor : Processors,
     prompt_key : {prompt_key},
     answer_key : {answer_key},
     image_key : {image_key},
     max_prompt_length : {MaxPromptLength, LongPromptLength},
     truncation : Truncations,
     format_prompt : Templates,
     max_pixels : {MaxPixels},
     min_pixels : {MinPixels},
     filter_overlong_prompts : BOOLEAN]

\* ------------------------------------------------------------ construction

TextPrompts == {<<"a">>, <<"a", "b", "a", "b">>}

\* The sample images with their questions: a small image, one that is
\* downscaled, one too thin to downscale, and a small image with a long
\* question.
ImageSamples ==
    {[image |-> <<1, 1>>, question |-> <<"a">>],
     [image |-> <<3, 3>>, question |-> <<"a">>],
     [image |-> <<1, 5>>, question |-> <<"a">>],
     [image |-> <<1, 1>>, question |-> <<"a", "b", "a">>]}

\* Rows of a tabular source: a text-only table and a table with images.
TextRows == {[problem |-> q, answer |-> "7"] : q \in TextPrompts}
ImageRows ==
    {[images |-> <<x.image>>, problem |-> <<Marker>> \o x.question,
      answer |-> "7"] : x \in ImageSamples}

\* Rows of a table whose records may hold several images.
MultiImageRows ==
    {[images |-> <<<<2, 2>>, <<2, 2>>>>, problem |-> <<Marker, Marker>>,
      answer |-> "7"],
     [images |-> <<<<1, 1>>>>, problem |-> <<Marker, "a">>, answer |-> "7"]}

\* Entries of a JSON annotation file; img_id stands for the image that
\* os.path.join(image_root, img_id + "_origin.png") names.
Annotations ==
    {[img_id |-> x.image, question |-> x.question, answer |-> 7,
      location |-> "loc"] : x \in ImageSamples}

SeqsUpTo(S, n) == UNION {[1..k -> S] : k \in 1..n}

\* str(ele['answer'])
Str(n) == CASE n = 7 -> "7" [] OTHER -> "0"

\* lines 310-316: one stored record per annotation
SelfRecord(ele) ==
    [images |-> <<ele.img_id>>,
     problem |-> <<Marker>> \o ele.question,
     answer |-> Str(ele.answer),
     location |-> ele.location]

\* _filter_overlong_prompts: the processor's apply_chat_template returns
\* the rendered string (tokenize defaults to False), the tokenizer's the
\* token ids.
filter_overlong_prompts(example, cfg) ==
    LET messages == build_messages(example, cfg.prompt_key, cfg.image_key,
                                   cfg.format_prompt)
        rendered == apply_chat_template(messages)
    IN IF cfg.processor # "None"
       THEN StrLen(rendered) <= cfg.max_prompt_length
       ELSE Len(encode(rendered)) <= cfg.max_prompt_length

RECURSIVE Filter(_, _)
Filter(rows, cfg) ==
    IF rows = << >> THEN << >>
    ELSE (IF filter_overlong_prompts(Head(rows), cfg) THEN <<Head(rows)>>
          ELSE << >>)
         \o Filter(Tail(rows), cfg)

\* RLHFDataset.__init__: load, then filter when enabled
RLHFDatasetInit(rows, cfg) ==
    IF cfg.filter_overlong_prompts THEN Filter(rows, cfg) ELSE rows

\* RLHFSelfDataset.__init__: a Python list of dicts, never filtered
RLHFSelfDatasetInit(annotations, cfg) ==
    [i \in 1..Len(annotations) |-> SelfRecord(annotations[i])]

IdleCall ==
    [pc |-> "idle", index |-> 0, example |-> EmptyDict,
     messages |-> [role |-> "user", is_str |-> TRUE, content |-> << >>],
     prompt |-> << >>, raw_image_data |-> << >>, image_grid_thw |-> << >>,
     model_input_ids |-> << >>, input_ids |-> << >>,
     attention_mask |-> << >>, position_ids |-> << >>,
     plain_ids |-> << >>, raw_prompt_ids |-> << >>,
     raised |-> "", result |-> EmptyDict]

BmOff == [stage |-> "off", example |-> EmptyDict, template |-> NoTemplate,
          messages |-> [role |-> "user", is_str |-> TRUE, content |-> << >>]]

CfOff == [stage |-> "off", features |-> << >>, raised |-> FALSE,
          batch |-> EmptyDict]

PiOff == [stage |-> "off", image |-> <<1, 1>>, min_pixels |-> 1,
          max_pixels |-> 1, out |-> [ok |-> TRUE, width |-> 1, height |-> 1]]

\* The state after construction.  A processor is required by a source with
\* images (self.processor is used on the image path).  The table of
\* several-image records is loaded with the long max_prompt_length.
Init ==
    /\ variant \in {"RLHFDataset", "RLHFSelfDataset"}
    /\ config \in Configs
    /\ \/ /\ variant = "RLHFDataset"
          /\ config.max_prompt_length = MaxPromptLength
          /\ \E rows \in SeqsUpTo(TextRows, MaxRecords) :
                dataset = RLHFDatasetInit(rows, config)
       \/ /\ variant = "RLHFDataset"
          /\ config.max_prompt_length = MaxPromptLength
          /\ config.processor # "None"
          /\ \E rows \in SeqsUpTo(ImageRows, MaxRecords) :
                dataset = RLHFDatasetInit(rows, config)
       \/ /\ variant = "RLHFDataset"
          /\ config.max_prompt_length = LongPromptLength
          /\ config.processor # "None"
          /\ \E rows \in SeqsUpTo(MultiImageRows, MaxRecords) :
                dataset = RLHFDatasetInit(rows, config)
       \/ /\ variant = "RLHFSelfDataset"
          /\ config.max_prompt_length = MaxPromptLength
          /\ config.processor # "None"
          /\ \E annotations \in SeqsUpTo(Annotations, MaxRecords) :
                dataset = RLHFSelfDatasetInit(annotations, config)
    /\ dataset0 = dataset
    /\ calls = [c \in 1..MaxCalls |-> IdleCall]
    /\ bm = BmOff
    /\ pi = PiOff
    /\ cf = CfOff

\* --------------------------------------------- __getitem__, step by step

\* Each step maps the example dict and the call's locals to their values
\* after the step; a raise ends the call with pc = "done".

Raise(ex, call, name) ==
    [ex |-> ex, call |-> [call EXCEPT !.pc = "done", !.raised = name]]

\* line 167: messages = self._build_messages(example)
DoBuildMessages(ex, call, cfg) ==
    [ex |-> ex,
     call |-> [call EXCEPT
                 !.pc = "branch",
                 !.messages = build_messages(ex, cfg.prompt_key, cfg.image_key,
                                             cfg.format_prompt)]]

\* lines 170-171 and 188: the branch on the image field, and the prompt
DoBranch(ex, call, cfg) ==
    [ex |-> ex,
     call |-> [call EXCEPT
                 !.pc = IF Has(ex, cfg.image_key) THEN "pop" ELSE "text",
                 !.prompt = apply_chat_template(call.messages)]]

\* line 172: raw_image_data = example.pop(self.image_key)
DoPopImages(ex, call, cfg) ==
    IF Has(ex, cfg.image_key)
    THEN [ex |-> Pop(ex, cfg.image_key),
          call |-> [call EXCEPT !.pc = "images",
                                !.raw_image_data = ex[cfg.image_key]]]
    ELSE Raise(ex, call, "KeyError")

\* lines 173-179: normalise the images and run the processor
DoProcessImages(ex, call, cfg) ==
    LET images == [i \in 1..Len(call.raw_image_data) |->
                      process_image(call.raw_image_data[i], cfg.min_pixels,
                                    cfg.max_pixels)]
        grids == [i \in 1..Len(images) |-> Grid(images[i])]
        ids == ExpandPads(call.prompt, grids, 1)
    IN IF \E i \in 1..Len(images) : ~images[i].ok
       THEN Raise(ex, call, "ValueError")
       ELSE [ex |-> ex,
             call |-> [call EXCEPT
                         !.pc = "store",
                         !.image_grid_thw = grids,
                         !.model_input_ids = ids,
                         !.input_ids = ids,
                         !.attention_mask = [i \in 1..Len(ids) |-> 1]]]

\* line 186: example["multi_modal_data"] = {"image": raw_image_data}
DoStoreMultiModal(ex, call, cfg) ==
    [ex |-> Put(ex, "multi_modal_data", [image |-> call.raw_image_data]),
     call |-> [call EXCEPT !.pc = "position"]]

\* lines 189-191: the text-only encoder
DoEncodeText(ex, call, cfg) ==
    LET ids == encode(call.prompt)
    IN [ex |-> ex,
        call |-> [call EXCEPT
                    !.pc = "position",
                    !.model_input_ids = ids,
                    !.input_ids = ids,
                    !.attention_mask = [i \in 1..Len(ids) |-> 1]]]

\* lines 194-204: rotary indices for the Qwen2VLImageProcessor, else the
\* clipped cumulative sum of the mask
PositionIds(call, cfg) ==
    IF cfg.processor = "Qwen2VLImageProcessor"
    THEN get_rope_index(call.input_ids, call.image_grid_thw, call.attention_mask)
    ELSE <<ClipCumsum(call.attention_mask)>>

DoPositionIds(ex, call, cfg) ==
    [ex |-> ex,
     call |-> [call EXCEPT !.pc = "postprocess",
                           !.position_ids = PositionIds(call, cfg)]]

\* The returned position_ids dropped: position_ids stays as computed.
PostprocessCallKeepsPositionIds(call, cfg) ==
    [postprocess_data(call.input_ids, call.attention_mask, call.position_ids,
                      cfg.max_prompt_length, pad_token_id, cfg.truncation)
     EXCEPT !.position_ids = call.position_ids]

\* The truncation argument left out: postprocess_data never raises.
PostprocessCallNoTruncation(call, cfg) ==
    postprocess_data(call.input_ids, call.attention_mask, call.position_ids,
                     cfg.max_prompt_length, pad_token_id,
                     IF cfg.truncation = "error" THEN "right" ELSE cfg.truncation)

\* lines 206-214: the call of VF.postprocess_data
PostprocessCall(call, cfg) ==
    postprocess_data(call.input_ids, call.attention_mask, call.position_ids,
                     cfg.max_prompt_length, pad_token_id, cfg.truncation)

DoPostprocess(ex, call, cfg) ==
    LET out == PostprocessCall(call, cfg)
    IN IF ~out.ok THEN Raise(ex, call, "NotImplementedError")
       ELSE [ex |-> ex,
             call |-> [call EXCEPT !.pc = "raw",
                                   !.input_ids = out.input_ids,
                                   !.attention_mask = out.attention_mask,
                                   !.position_ids = out.position_ids]]

\* lines 215-222: raw_prompt_ids
DoRawPromptIds(ex, call, cfg) ==
    LET plain == encode(call.prompt)
        out == TruncateRaw(plain, cfg.max_prompt_length, cfg.truncation)
    IN IF ~out.ok
       THEN Raise(ex, [call EXCEPT !.plain_ids = plain], "RuntimeError")
       ELSE [ex |-> ex,
             call |-> [call EXCEPT !.pc = "assemble",
                                   !.plain_ids = plain,
                                   !.raw_prompt_ids = out.ids]]

\* lines 224-227: the four fields written into the example
DoAssemble(ex, call, cfg) ==
    [ex |-> Put(Put(Put(Put(ex, "input_ids", call.input_ids),
                        "attention_mask", call.attention_mask),
                    "position_ids", call.position_ids),
                "raw_prompt_ids", call.raw_prompt_ids),
     call |-> [call EXCEPT !.pc = "answer"]]

\* lines 228-229: example["ground_truth"] = example.pop(self.answer_key),
\* and the return of the example
DoAnswer(ex, call, cfg) ==
    IF Has(ex, cfg.answer_key)
    THEN LET out == Put(Pop(ex, cfg.answer_key), "ground_truth",
                        ex[cfg.answer_key])
         IN [ex |-> out,
             call |-> [call EXCEPT !.pc = "done", !.result = out]]
    ELSE Raise(ex, call, "KeyError")

\* The step at the call's position.
StepOf(ex, call, cfg) ==
    CASE call.pc = "build" -> DoBuildMessages(ex, call, cfg)
      [] call.pc = "branch" -> DoBranch(ex, call, cfg)
      [] call.pc = "pop" -> DoPopImages(ex, call, cfg)
      [] call.pc = "images" -> DoProcessImages(ex, call, cfg)
      [] call.pc = "store" -> DoStoreMultiModal(ex, call, cfg)
      [] call.pc = "text" -> DoEncodeText(ex, call, cfg)
      [] call.pc = "position" -> DoPositionIds(ex, call, cfg)
      [] call.pc = "postprocess" -> DoPostprocess(ex, call, cfg)
      [] call.pc = "raw" -> DoRawPromptIds(ex, call, cfg)
      [] call.pc = "assemble" -> DoAssemble(ex, call, cfg)
      [] call.pc = "answer" -> DoAnswer(ex, call, cfg)

\* One call run from its first step to its end with nothing in between:
\* the call's final locals.
RECURSIVE RunFrom(_, _, _)
RunFrom(ex, call, cfg) ==
    IF call.pc = "done" THEN call
    ELSE LET next == StepOf(ex, call, cfg)
         IN RunFrom(next.ex, next.call, cfg)

\* __getitem__ on a record of a freshly constructed dataset, run alone.
RunAlone(record, cfg) ==
    RunFrom(record, [IdleCall EXCEPT !.pc = "build"], cfg)

\* ---------------------------------------------------------------- actions

Returned(c) == calls[c].pc = "done" /\ calls[c].raised = ""
Raised(c) == calls[c].pc = "done" /\ calls[c].raised # ""
InFlight(c) == calls[c].pc \notin {"idle", "done"}

\* The dict the name `example` denotes in call c: RLHFDataset indexes a
\* table, which builds a new dict on every access; RLHFSelfDataset indexes
\* a Python list, which hands out the stored dict itself.
Example(c) ==
    IF variant = "RLHFSelfDataset" THEN dataset[calls[c].index]
    ELSE calls[c].example

Apply(c, next) ==
    IF variant = "RLHFSelfDataset"
    THEN /\ dataset' = [dataset EXCEPT ![calls[c].index] = next.ex]
         /\ calls' = [calls EXCEPT ![c] = next.call]
    ELSE /\ dataset' = dataset
         /\ calls' = [calls EXCEPT ![c] = [next.call EXCEPT !.example = next.ex]]

Rest == UNCHANGED <<variant, config, dataset0, bm, pi, cf>>

\* line 164: example = self.dataset[index]
Fetch(c, i) ==
    /\ calls[c].pc = "idle"
    /\ \A d \in 1..(c - 1) : calls[d].pc # "idle"
    /\ i \in 1..Len(dataset)
    /\ calls' = [calls EXCEPT ![c] =
                    [@ EXCEPT !.pc = "build", !.index = i,
                              !.example = IF variant = "RLHFSelfDataset"
                                          THEN EmptyDict ELSE dataset[i]]]
    /\ UNCHANGED dataset
    /\ Rest

\* A call made when no other call is running.
GetItem(c, i) ==
    /\ \A d \in 1..MaxCalls : ~InFlight(d)
    /\ Fetch(c, i)

\* A call made while other calls may be running.
GetItemConcurrently(c, i) ==
    /\ Len(dataset) > 0
    /\ Fetch(c, i)

\* The step at call c's position, applied to the dict `example` denotes.
Take(c) ==
    /\ Apply(c, StepOf(Example(c), calls[c], config))
    /\ Rest

BuildMessages(c) ==
    /\ calls[c].pc = "build"
    /\ Take(c)

Branch(c) ==
    /\ calls[c].pc = "branch"
    /\ Take(c)

PopImages(c) ==
    /\ calls[c].pc = "pop"
    /\ Take(c)

ProcessImages(c) ==
    /\ calls[c].pc = "images"
    /\ Take(c)

StoreMultiModal(c) ==
    /\ calls[c].pc = "store"
    /\ Take(c)

EncodeText(c) ==
    /\ calls[c].pc = "text"
    /\ Take(c)

ComputePositionIds(c) ==
    /\ calls[c].pc = "position"
    /\ Take(c)

Postprocess(c) ==
    /\ calls[c].pc = "postprocess"
    /\ Take(c)

RawPromptIds(c) ==
    /\ calls[c].pc = "raw"
    /\ Take(c)

Assemble(c) ==
    /\ calls[c].pc = "assemble"
    /\ Take(c)

AnswerAndReturn(c) ==
    /\ calls[c].pc = "answer"
    /\ Take(c)

Advance(c) ==
    \/ BuildMessages(c)
    \/ Branch(c)
    \/ PopImages(c)
    \/ ProcessImages(c)
    \/ StoreMultiModal(c)
    \/ EncodeText(c)
    \/ ComputePositionIds(c)
    \/ Postprocess(c)
    \/ RawPromptIds(c)
    \/ Assemble(c)
    \/ AnswerAndReturn(c)

\* Calls one after the other.
Next ==
    \E c \in 1..MaxCalls :
        \/ \E i \in 1..MaxRecords : GetItem(c, i)
        \/ Advance(c)

Spec == Init /\ [][Next]_vars

\* Calls with their steps interleaved.
NextConcurrent ==
    \E c \in 1..MaxCalls :
        \/ \E i \in 1..MaxRecords : GetItemConcurrently(c, i)
        \/ Advance(c)

SpecConcurrent == Init /\ [][NextConcurrent]_vars

\* ------------------------------------------- _build_messages on its own

Symbols == {"a", "b", Marker}

PromptStrings == UNION {[1..n -> Symbols] : n \in 0..MaxPromptSyms}

BmTemplates ==
    {NoTemplate,
     [set |-> TRUE, pre |-> << >>, suf |-> <<"b">>],
     [set |-> TRUE, pre |-> <<Marker>>, suf |-> <<"a", Marker>>]}

BmExamples ==
    {[problem |-> p, answer |-> "7"] : p \in PromptStrings}
    \cup {[images |-> <<(<<1, 1>>)>>, problem |-> p, answer |-> "7"] :
             p \in PromptStrings}

DefaultConfig ==
    [processor |-> "None", prompt_key |-> prompt_key, answer_key |-> answer_key,
     image_key |-> image_key, max_prompt_length |-> MaxPromptLength,
     truncation |-> "error", format_prompt |-> NoTemplate,
     max_pixels |-> MaxPixels, min_pixels |-> MinPixels,
     filter_overlong_prompts |-> FALSE]

NoDataset ==
    /\ variant = "RLHFDataset"
    /\ config = DefaultConfig
    /\ dataset = << >>
    /\ dataset0 = << >>
    /\ calls = [c \in 1..MaxCalls |-> IdleCall]

InitBuildMessages ==
    /\ NoDataset
    /\ pi = PiOff
    /\ cf = CfOff
    /\ \E ex \in BmExamples, t \in BmTemplates :
          bm = [BmOff EXCEPT !.stage = "in", !.example = ex, !.template = t]

BuildMessagesAlone ==
    /\ bm.stage = "in"
    /\ bm' = [bm EXCEPT
                !.stage = "out",
                !.messages = build_messages(bm.example, prompt_key, image_key,
                                            bm.template)]
    /\ UNCHANGED <<variant, config, dataset, dataset0, calls, pi, cf>>

SpecBuildMessages == InitBuildMessages /\ [][BuildMessagesAlone]_vars

\* --------------------------------------------- process_image on its own

InitProcessImage ==
    /\ NoDataset
    /\ bm = BmOff
    /\ cf = CfOff
    /\ \E w \in 1..MaxDim, h \in 1..MaxDim,
          lo \in 1..MaxBudget, hi \in 1..MaxBudget :
          /\ lo <= hi
          /\ pi = [PiOff EXCEPT !.stage = "in", !.image = <<w, h>>,
                                !.min_pixels = lo, !.max_pixels = hi]

ProcessImageAlone ==
    /\ pi.stage = "in"
    /\ pi' = [pi EXCEPT
                !.stage = "out",
                !.out = process_image(pi.image, pi.min_pixels, pi.max_pixels)]
    /\ UNCHANGED <<variant, config, dataset, dataset0, calls, bm, cf>>

SpecProcessImage == InitProcessImage /\ [][ProcessImageAlone]_vars

\* ------------------------------------------------------------------ claims

Calls == 1..MaxCalls

\* Call c is the first call made on its index.
FirstOnIndex(c) ==
    \A d \in 1..(c - 1) : calls[d].index # calls[c].index

\* C1: once the first __getitem__(i) has returned an example, every later
\* __getitem__(i) on the same dataset object returns an example too, with
\* the same input_ids, attention_mask and position_ids.
C1_Idempotent ==
    \A c1 \in Calls, c2 \in Calls :
        ( /\ c1 < c2
          /\ calls[c1].index = calls[c2].index
          /\ FirstOnIndex(c1)
          /\ Returned(c1)
          /\ calls[c2].pc = "done" )
        => /\ Returned(c2)
           /\ calls[c2].result.input_ids = calls[c1].result.input_ids
           /\ calls[c2].result.attention_mask = calls[c1].result.attention_mask
           /\ calls[c2].result.position_ids = calls[c1].result.position_ids

\* C2: whenever no __getitem__ call is running (before the first call and
\* after each one, returned or raised), every stored record is the record
\* construction left: same key set, same image, answer and other fields.
C2_StoredRecordsUntouched ==
    (\A c \in Calls : ~InFlight(c))
    => /\ Len(dataset) = Len(dataset0)
       /\ \A i \in 1..Len(dataset0) :
             /\ DOMAIN dataset[i] = DOMAIN dataset0[i]
             /\ \A k \in DOMAIN dataset0[i] : dataset[i][k] = dataset0[i][k]

\* C3: with the steps of several calls interleaved, every finished call
\* ends as it ends when run alone on the freshly constructed dataset: the
\* same exception, or the same example field by field.
C3_InterleavedAsAlone ==
    \A c \in Calls :
        calls[c].pc = "done"
        => LET alone == RunAlone(dataset0[calls[c].index], config)
           IN /\ calls[c].raised = alone.raised
              /\ DOMAIN calls[c].result = DOMAIN alone.result
              /\ \A k \in DOMAIN alone.result :
                    calls[c].result[k] = alone.result[k]

\* C4: every returned example has input_ids, attention_mask and every row
\* of position_ids of length max_prompt_length, and position_ids has three
\* rows on the rotary path and one row otherwise.
C4_FixedLength ==
    \A c \in Calls :
        Returned(c)
        => LET r == calls[c].result
           IN /\ Len(r.input_ids) = config.max_prompt_length
              /\ Len(r.attention_mask) = config.max_prompt_length
              /\ Len(r.position_ids) =
                    (IF config.processor = "Qwen2VLImageProcessor" THEN 3 ELSE 1)
              /\ \A row \in 1..Len(r.position_ids) :
                    Len(r.position_ids[row]) = config.max_prompt_length

\* A record with an image whose encoding was longer than the budget came
\* back truncated, with three-row position_ids.
C4_Witness ==
    \E c \in Calls :
        /\ Returned(c)
        /\ Has(calls[c].result, "multi_modal_data")
        /\ Len(calls[c].model_input_ids) > config.max_prompt_length
        /\ Len(calls[c].result.position_ids) = 3

\* C5: on the non-rotary path, a returned example whose encoder gave
\* n <= max_prompt_length = L tokens has input_ids = L-n pad ids then the
\* n token ids, attention_mask = L-n zeros then n ones, and position_ids =
\* L-n zeros then 0, 1, ..., n-1.
C5_LeftPaddingLayout ==
    \A c \in Calls :
        ( /\ Returned(c)
          /\ config.processor # "Qwen2VLImageProcessor"
          /\ Len(calls[c].model_input_ids) <= config.max_prompt_length )
        => LET r == calls[c].result
               L == config.max_prompt_length
               n == Len(calls[c].model_input_ids)
           IN /\ Len(r.input_ids) = L
              /\ Len(r.attention_mask) = L
              /\ Len(r.position_ids) = 1 /\ Len(r.position_ids[1]) = L
              /\ \A j \in 1..L :
                    IF j <= L - n
                    THEN /\ r.input_ids[j] = pad_token_id
                         /\ r.attention_mask[j] = 0
                         /\ r.position_ids[1][j] = 0
                    ELSE /\ r.input_ids[j] = calls[c].model_input_ids[j - (L - n)]
                         /\ r.attention_mask[j] = 1
                         /\ r.position_ids[1][j] = j - (L - n) - 1

\* A returned example with at least two real tokens and some padding.
C5_Witness ==
    \E c \in Calls :
        /\ Returned(c)
        /\ config.processor # "Qwen2VLImageProcessor"
        /\ Len(calls[c].model_input_ids) >= 2
        /\ Len(calls[c].model_input_ids) < config.max_prompt_length

C7_RawPromptIds ==
    \A c \in Calls :
        Returned(c)
        => LET raw == calls[c].result.raw_prompt_ids
               plain == encode(calls[c].prompt)
               L == config.max_prompt_length
               n == Len(plain)
           IN /\ Len(raw) = Min2(L, n)
              /\ Len(raw) <= L
              /\ config.truncation = "error" => n <= L
              /\ \A j \in 1..Len(raw) :
                    raw[j] = IF n > L /\ config.truncation = "left"
                             THEN plain[n - L + j] ELSE plain[j]

\* A returned example whose raw prompt was longer and was cut on the left.
C7_Witness ==
    \E c \in Calls :
        /\ Returned(c)
        /\ config.truncation = "left"
        /\ Len(encode(calls[c].prompt)) > config.max_prompt_length

\* C9: a returned example has ground_truth equal to the answer of the
\* record as constructed and no answer field; it has multi_modal_data
\* exactly when that record has images, then holding the record's image
\* list as stored, with no image field; every other field of the record
\* is in the example unchanged.
C9_OutputFields ==
    \A c \in Calls :
        Returned(c)
        => LET r == calls[c].result
               record == dataset0[calls[c].index]
           IN /\ Has(r, "ground_truth")
              /\ r["ground_truth"] = record[answer_key]
              /\ ~Has(r, answer_key)
              /\ Has(r, "multi_modal_data") <=> Has(record, image_key)
              /\ Has(record, image_key)
                   => ( /\ Has(r, "multi_modal_data")
                        /\ r["multi_modal_data"].image = record[image_key]
                        /\ ~Has(r, image_key) )
              /\ \A k \in (DOMAIN record) \ {answer_key, image_key} :
                    Has(r, k) /\ r[k] = record[k]

\* The prompt a content list stands for: a marker for each image part, the
\* text of each text part, in order.
RECURSIVE Unparse(_)
Unparse(parts) ==
    IF parts = << >> THEN << >>
    ELSE (IF Head(parts).type = "image" THEN <<Marker>> ELSE Head(parts).text)
         \o Unparse(Tail(parts))

CountMarkers(s) == Cardinality({i \in 1..Len(s) : s[i] = Marker})

\* C8: for a record with the image field whose effective prompt has k
\* markers, _build_messages gives one user message whose content list has
\* exactly k image parts; every text part is non-empty and marker-free, no
\* two text parts are adjacent, and reading the list back (a marker per
\* image part, the text of each text part) gives the effective prompt: the
\* text parts are the non-empty segments in order and the i-th image part
\* stands where the i-th marker stood.
C8_MarkerAlignment ==
    (bm.stage = "out" /\ Has(bm.example, image_key))
    => LET effective == Render(bm.template, bm.example[prompt_key])
           parts == bm.messages.content
           images == {i \in 1..Len(parts) : parts[i].type = "image"}
           texts == {i \in 1..Len(parts) : parts[i].type = "text"}
       IN /\ bm.messages.role = "user"
          /\ ~bm.messages.is_str
          /\ images \cup texts = 1..Len(parts)
          /\ Cardinality(images) = CountMarkers(effective)
          /\ \A i \in texts :
                /\ parts[i].text # << >>
                /\ CountMarkers(parts[i].text) = 0
                /\ (i + 1) \notin texts
          /\ Unparse(parts) = effective

\* A prompt with a leading marker, two adjacent markers and text.
C8_Witness ==
    /\ bm.stage = "out"
    /\ Has(bm.example, image_key)
    /\ LET effective == Render(bm.template, bm.example[prompt_key])
       IN /\ Len(effective) >= 4
          /\ effective[1] = Marker
          /\ effective[3] = Marker
          /\ effective[4] = Marker
          /\ effective[2] # Marker

\* C10: for an image with positive sides and 1 <= min_pixels <= max_pixels,
\* process_image returns an image of at most max_pixels pixels, and of at
\* least min_pixels pixels up to the truncation of the two scaled sides
\* (one more pixel on each side would exceed min_pixels).
C10_PixelBudget ==
    pi.stage = "out"
    => /\ pi.out.ok
       /\ pi.out.width * pi.out.height <= pi.max_pixels
       /\ \/ pi.out.width * pi.out.height >= pi.min_pixels
          \/ (pi.out.width + 1) * (pi.out.height + 1) > pi.min_pixels

\* --------------------------------------------------- collate_fn on its own

\* Examples handed to collate_fn in one batch.
MaxBatch == 2

\* A field value: a torch.Tensor (its entries in v, its shape Len(v)) or
\* any other Python value.
Tensor(v) == [tensor |-> TRUE, v |-> v]
Other(v) == [tensor |-> FALSE, v |-> v]

\* lines 39-44: the values of field `key` appended in the order of the
\* features that have it as a tensor (is_tensor) or as a non-tensor
RECURSIVE Gather(_, _, _)
Gather(features, key, is_tensor) ==
    IF features = << >> THEN << >>
    ELSE (IF Has(Head(features), key) /\ Head(features)[key].tensor = is_tensor
          THEN <<Head(features)[key].v>> ELSE << >>)
         \o Gather(Tail(features), key, is_tensor)

KeysOf(features, is_tensor) ==
    {k \in UNION {DOMAIN features[i] : i \in 1..Len(features)} :
        \E i \in 1..Len(features) :
            Has(features[i], k) /\ features[i][k].tensor = is_tensor}

\* torch.stack(value, dim=0) raises unless all tensors have one shape.
Stackable(values) ==
    \A i \in 1..Len(values), j \in 1..Len(values) : Len(values[i]) = Len(values[j])

\* collate_fn(features): raised, or the batch {**tensors, **non_tensors},
\* each field with the rows along its leading axis.
collate_fn(features) ==
    LET tensor_keys == KeysOf(features, TRUE)
        other_keys == KeysOf(features, FALSE)
    IN IF \E k \in tensor_keys : ~Stackable(Gather(features, k, TRUE))
       THEN [raised |-> TRUE, batch |-> EmptyDict]
       ELSE [raised |-> FALSE,
             batch |-> [k \in tensor_keys \cup other_keys |->
                          IF k \in other_keys
                          THEN [tensor |-> FALSE, rows |-> Gather(features, k, FALSE)]
                          ELSE [tensor |-> TRUE, rows |-> Gather(features, k, TRUE)]]]

\* Examples as __getitem__ returns them, cut down to four fields:
\* input_ids (a tensor), ground_truth, multi_modal_data (with images only)
\* and a pass-through field that one source holds as a tensor and another
\* as a plain list.
CfExamples ==
    {[k \in {"input_ids", "ground_truth"} \cup mm \cup ex |->
        CASE k = "input_ids" -> Tensor(ids)
          [] k = "ground_truth" -> Other(gt)
          [] k = "multi_modal_data" -> Other("image")
          [] k = "location" -> loc] :
        ids \in {<<1>>, <<2>>, <<1, 2>>}, gt \in {"7", "8"},
        mm \in {{}, {"multi_modal_data"}}, ex \in {{}, {"location"}},
        loc \in {Tensor(<<3>>), Other(<<5, 6>>)}}

InitCollate ==
    /\ NoDataset
    /\ bm = BmOff
    /\ pi = PiOff
    /\ \E n \in 0..MaxBatch : \E features \in [1..n -> CfExamples] :
          cf = [CfOff EXCEPT !.stage = "in", !.features = features]

Collate ==
    /\ cf.stage = "in"
    /\ LET out == collate_fn(cf.features)
       IN cf' = [cf EXCEPT !.stage = "out", !.raised = out.raised,
                           !.batch = out.batch]
    /\ UNCHANGED <<variant, config, dataset, dataset0, calls, bm, pi>>

SpecCollate == InitCollate /\ [][Collate]_vars

\* C11: every field of a batch collate_fn returns has one row per example,
\* row i is the value the field has in example i, and the field is stacked
\* exactly when that value is a tensor.
C11_BatchAligned ==
    (cf.stage = "out" /\ ~cf.raised)
    => \A k \in DOMAIN cf.batch :
          /\ Len(cf.batch[k].rows) = Len(cf.features)
          /\ \A i \in 1..Len(cf.features) :
                /\ Has(cf.features[i], k)
                /\ cf.features[i][k].tensor = cf.batch[k].tensor
                /\ cf.batch[k].rows[i] = cf.features[i][k].v


\* ------------------------------------------- filtering and access (C12)

\* The over-length errors: postprocess_data's and the raw_prompt_ids check's.
OverLength == {"NotImplementedError", "RuntimeError"}

\* C12: in RLHFDataset constructed with filter_overlong_prompts enabled and
\* truncation = "error", no __getitem__ call on a record the filter kept,
\* text-only or with images, ends with the over-length error.
C12_FilterMakesAccessSafe ==
    (variant = "RLHFDataset" /\ config.filter_overlong_prompts
        /\ config.truncation = "error")
    => \A c \in 1..MaxCalls :
          calls[c].pc = "done" => calls[c].raised \notin OverLength

====
